---- MODULE Spec2Model ----
(***************************************************************************)
(* Pairing session lifecycle of DTZ-NOVA-X-MD-WEB-PAIR.                    *)
(*                                                                         *)
(* The repository holds three router variants, each deployed on its own:   *)
(*   "pair"    src/pair.js                  GET /                          *)
(*   "retry"   src/unnamed/part_000:1-119   GET /  (retrying code flow)     *)
(*   "qrphone" src/unnamed/part_000:266-503 GET /qr, GET /phone            *)
(* A behaviour fixes the deployed variant in Init.  Every await of a       *)
(* handler is a suspension point: one action runs a handler from one       *)
(* suspension point to the next, as the JavaScript event loop does.  The    *)
(* gateway (Baileys socket), the file system, timers and HTTP callers are  *)
(* the environment: their events and results are drawn with \E.            *)
(***************************************************************************)
EXTENDS Integers, Sequences, FiniteSets, TLC

\* ---------------------------------------------------------------- bounds
NumSessions == 2      \* concurrent pairing requests
MaxAttempts == 4      \* non-terminal closes the gateway delivers in one behaviour
MaxClock == 1         \* values Date.now() takes: 0..MaxClock
MaxRepeats == 1       \* close events a closed socket delivers once more, in one behaviour

\* ------------------------------------------------------ program constants
MinDigits == 7        \* src/pair.js:41  cleanNumber.length < 7
MaxRetries == 3       \* src/unnamed/part_000:91  s.retryCount <= 3
LoggedOut == 401      \* DisconnectReason.loggedOut, src/pair.js:137; part_000:86

\* statusCode of lastDisconnect.error: loggedOut, or another reason such as
\* restartRequired (515)
CloseReasons == {LoggedOut, 515}

Sessions == 1..NumSessions
Variants == {"pair", "retry", "qrphone"}

\* ------------------------------------------------------------ HTTP inputs
NoNumber == <<"undefined">>          \* req.query.number absent
GoodNumber == <<"+", "4", "4", "7", "9", "1", "1", "1">>
ShortNumber == <<"1", "2", "a", "b">>
Numbers == {NoNumber, <<>>, ShortNumber, GoodNumber}

Digits == {"0", "1", "2", "3", "4", "5", "6", "7", "8", "9"}
IsDigit(c) == c \in Digits

\* number.replace(/\D/g, '')  (pair.js:39, part_000:42, part_000:434)
CleanNumber(n) == SelectSeq(n, IsDigit)

\* !number: undefined and '' are falsy (pair.js:35, part_000:430)
Falsy(n) == n = NoNumber \/ n = <<>>

\* the target identifier the spec calls well-formed: present, at least
\* MinDigits digits (pair.js:35-43)
ValidNumber(n) == ~Falsy(n) /\ Len(CleanNumber(n)) >= MinDigits

\* ------------------------------------------------------------- responses
NoResp == [status |-> 0, kind |-> "none"]
Resp(st, k) == [status |-> st, kind |-> k]
IsCredential(r) == r.kind \in {"code", "qr"}

\* no /status request was answered yet
NoStatus == [id |-> <<"nil">>, connected |-> FALSE, error |-> FALSE, asked |-> FALSE]

\* no SIGTERM or SIGINT was received
NoSignal == [phase |-> "idle", key |-> <<"nil">>, seen |-> {}]

VARIABLES
    variant,         \* which router file is deployed
    alive,           \* FALSE once process.exit(0) ran
    clock,           \* Date.now()
    fsDirs,          \* session directories that exist on disk
    activeSessions,  \* the module-level Map: key -> [owner, connected]
    sessions,        \* per request: the closure state of its handlers
    statusReply,     \* the body of the latest GET /status/:sessionId response
    signal           \* the SIGTERM/SIGINT handler: its position in the loop

vars == <<variant, alive, clock, fsDirs, activeSessions, sessions, statusReply, signal>>

\* A request slot nobody uses yet.
Fresh ==
    [flow |-> "none", number |-> NoNumber, stamp |-> 0, pc |-> "idle",
     sock |-> "none", listening |-> FALSE,
     resp |-> NoResp, sendAttempts |-> 0,
     timer |-> "none", ttask |-> "idle", exitTimer |-> "none", etask |-> "idle",
     openTask |-> "idle", closeTask |-> "idle", bgCleanup |-> FALSE,
     qrTask |-> "idle", qrGenerated |-> FALSE,
     attempts |-> 0, backoff |-> 0, closes |-> 0, repeats |-> 0,
     hist |-> {}]

\* ------------------------------------------------------------ identifiers
\* pair.js:28-30,45-46  'session_' + Math.random()...: taken as unique per request
\* part_000:295        'session_' + Date.now()
\* part_000:21         './' + (num || 'session')
\* part_000:435        './session_' + cleanNumber + '_' + Date.now()
SessionIdOf(r, s) ==
    CASE r.flow = "pair"  -> <<"rnd", s>>
      [] r.flow = "qr"    -> <<"ts", r.stamp>>
      [] r.flow = "phone" -> <<"num", CleanNumber(r.number), r.stamp>>
      [] r.flow = "retry" -> IF Falsy(r.number) THEN <<"session">> ELSE <<"raw", r.number>>
      [] OTHER            -> <<"nil">>

SessionId(s) == SessionIdOf(sessions[s], s)
SessionDir(s) == <<"./", SessionId(s)>>

HeadersSent(s) == sessions[s].resp # NoResp
DirExists(s) == SessionDir(s) \in fsDirs
InStore(s) == \E k \in DOMAIN activeSessions : activeSessions[k].owner = s

MapSet(m, k, v) == [x \in DOMAIN m \cup {k} |-> IF x = k THEN v ELSE m[x]]
\* the delete left out: the entry stays in the map
KeepEntry(m, k) == m
\* Map.prototype.delete
MapDelete(m, k) == [x \in DOMAIN m \ {k} |-> m[x]]

\* ----------------------------------------------------------- res.json(...)
\* the guard left out: the send is made whether or not a response went out
CanSendAlways(s) == TRUE

\* `if (!res.headersSent)` (pair.js:162,192,205,219; part_000:44,97,105,350,392,402)
CanSend(s) == ~HeadersSent(s)

\* A guarded send: the record of s after `if (!res.headersSent) res...json(r)`.
GuardedSend(s, rec, r) ==
    IF CanSend(s)
    THEN [rec EXCEPT !.resp = r, !.sendAttempts = @ + 1]
    ELSE rec

\* An unguarded res.json(r) (part_000:341,464,481,494): express throws
\* ERR_HTTP_HEADERS_SENT when the response was already sent.
BareSend(s, rec, r) ==
    IF ~HeadersSent(s)
    THEN [rec EXCEPT !.resp = r, !.sendAttempts = @ + 1]
    ELSE [rec EXCEPT !.sendAttempts = @ + 1]

\* -------------------------------------------------------- cleanupSession
\* fs.rm(dir, {recursive: true, force: true}) resolves on a path that does
\* not exist; on an existing one it can reject (EBUSY, EPERM, ...).
RmOutcomes(dirs, dir) == IF dir \in dirs THEN BOOLEAN ELSE {TRUE}

\* pair.js:18-26, part_000:283-291: the disk and the map after
\* cleanupSession(dir).  fs.rm resolved: the directory is gone and
\* activeSessions.delete(dir) ran.  fs.rm rejected: the catch logs, nothing
\* is deleted.  Either way the call resolves.
CleanupResult(dirs, map, dir, rmOk) ==
    IF rmOk
    THEN [dirs |-> dirs \ {dir}, map |-> MapDelete(map, dir), threw |-> FALSE]
    ELSE [dirs |-> dirs, map |-> map, threw |-> FALSE]

CleanupSession(dir) ==
    \E rmOk \in RmOutcomes(fsDirs, dir) :
        LET after == CleanupResult(fsDirs, activeSessions, dir, rmOk) IN
        /\ fsDirs' = after.dirs
        /\ activeSessions' = after.map

Put(s, rec) == sessions' = [sessions EXCEPT ![s] = rec]
Tag(rec, t) == [rec EXCEPT !.hist = @ \cup {t}]

Init ==
    /\ variant \in Variants
    /\ alive = TRUE
    /\ clock = 0
    /\ fsDirs = {}
    /\ activeSessions = << >>
    /\ sessions = [s \in Sessions |-> Fresh]
    /\ statusReply = NoStatus
    /\ signal = NoSignal

\* Date.now() advances.  Only part_000:295 and :435 read it, at a request:
\* time is counted from the first request, while a later one can still come.
Tick ==
    /\ alive /\ variant = "qrphone"
    /\ \E s \in Sessions : sessions[s].flow # "none"
    /\ \E s \in Sessions : sessions[s].flow = "none"
    /\ clock < MaxClock
    /\ clock' = clock + 1
    /\ UNCHANGED <<signal, statusReply, variant, alive, fsDirs, activeSessions, sessions>>

\* Requests take the slots in order.
FreeSlot(s) ==
    /\ sessions[s].flow = "none"
    /\ \A t \in Sessions : t < s => sessions[t].flow # "none"

\* ======================================================== pair.js  GET /
\* pair.js:32-56: validation, then sessionId, headers, await useMultiFileAuthState
PairRequest(s, n) ==
    /\ alive /\ variant = "pair" /\ FreeSlot(s)
    /\ LET r0 == [Fresh EXCEPT !.flow = "pair", !.number = n] IN
       IF Falsy(n)
       THEN Put(s, [r0 EXCEPT !.resp = Resp(400, "required"), !.sendAttempts = 1, !.pc = "done"])
       ELSE IF Len(CleanNumber(n)) < MinDigits
       THEN Put(s, [r0 EXCEPT !.resp = Resp(400, "invalid"), !.sendAttempts = 1, !.pc = "done"])
       ELSE Put(s, [r0 EXCEPT !.pc = "auth"])
    /\ UNCHANGED <<signal, statusReply, variant, alive, clock, fsDirs, activeSessions>>

\* pair.js:56-152: the auth state is loaded (the directory now exists), the
\* socket is made, the listeners attached, delay(3000) awaited
PairAuthDone(s) ==
    /\ alive /\ sessions[s].flow = "pair" /\ sessions[s].pc = "auth"
    /\ fsDirs' = fsDirs \cup {SessionDir(s)}
    /\ Put(s, [Tag(sessions[s], "storage") EXCEPT !.pc = "stabilize", !.sock = "live", !.listening = TRUE])
    /\ UNCHANGED <<signal, statusReply, variant, alive, clock, activeSessions>>

\* pair.js:214-217: useMultiFileAuthState or makeWASocket threw; the catch
\* awaits cleanupSession
PairInitFail(s) ==
    /\ alive /\ sessions[s].flow = "pair" /\ sessions[s].pc = "auth"
    /\ Put(s, [Tag(sessions[s], "initFail") EXCEPT !.pc = "cleanupInit"])
    /\ UNCHANGED <<signal, statusReply, variant, alive, clock, fsDirs, activeSessions>>

\* pair.js:155-159, 201-203: after the delay, bot.authState.creds.registered
\* is read; the gateway library decides it
PairDelayDone(s, registered) ==
    /\ alive /\ sessions[s].flow = "pair" /\ sessions[s].pc = "stabilize"
    /\ IF registered
       THEN Put(s, [Tag(sessions[s], "registered") EXCEPT !.pc = "cleanupReg"])
       ELSE Put(s, [sessions[s] EXCEPT !.pc = "request"])
    /\ UNCHANGED <<signal, statusReply, variant, alive, clock, fsDirs, activeSessions>>

\* pair.js:159-185: the pairing code arrived: guarded res.json, the timeout
\* timer is armed, activeSessions.set(sessionDir, {bot, timeoutId})
PairCodeOk(s) ==
    /\ alive /\ sessions[s].flow = "pair" /\ sessions[s].pc = "request"
    /\ Put(s, [GuardedSend(s, sessions[s], Resp(200, "code")) EXCEPT !.timer = "armed", !.pc = "done"])
    /\ activeSessions' = MapSet(activeSessions, SessionDir(s), [owner |-> s, connected |-> FALSE])
    /\ UNCHANGED <<signal, statusReply, variant, alive, clock, fsDirs>>

\* pair.js:187-190: requestPairingCode rejected; the catch awaits cleanupSession
PairCodeFail(s) ==
    /\ alive /\ sessions[s].flow = "pair" /\ sessions[s].pc = "request"
    /\ Put(s, [Tag(sessions[s], "credFail") EXCEPT !.pc = "cleanupFail"])
    /\ UNCHANGED <<signal, statusReply, variant, alive, clock, fsDirs, activeSessions>>

\* pair.js:190-199, 203-211, 217-226: cleanupSession resolved, then the guarded error
PairFailResponse(pc) ==
    CASE pc = "cleanupFail" -> Resp(500, "pairing")
      [] pc = "cleanupReg"  -> Resp(400, "registered")
      [] OTHER              -> Resp(500, "init")

PairCleanupDone(s) ==
    /\ alive /\ sessions[s].flow = "pair"
    /\ sessions[s].pc \in {"cleanupFail", "cleanupReg", "cleanupInit"}
    /\ CleanupSession(SessionDir(s))
    /\ Put(s, [GuardedSend(s, sessions[s], PairFailResponse(sessions[s].pc))
                  EXCEPT !.pc = "done"])
    /\ UNCHANGED <<signal, statusReply, variant, alive, clock>>

\* pair.js:112-120: connection === "open": sendMessage is awaited
PairOpen(s) ==
    /\ alive /\ sessions[s].flow = "pair"
    /\ sessions[s].sock = "live" /\ sessions[s].listening
    /\ Put(s, [sessions[s] EXCEPT !.sock = "open", !.openTask = "send"])
    /\ UNCHANGED <<signal, statusReply, variant, alive, clock, fsDirs, activeSessions>>

\* pair.js:120-128: the message was sent or failed (caught); finally awaits cleanupSession
PairSendSettled(s) ==
    /\ alive /\ sessions[s].flow = "pair" /\ sessions[s].openTask = "send"
    /\ Put(s, [sessions[s] EXCEPT !.openTask = "cleanup"])
    /\ UNCHANGED <<signal, statusReply, variant, alive, clock, fsDirs, activeSessions>>

\* pair.js:128-132: cleanup done, setTimeout(process.exit, 3000)
PairOpenCleanupDone(s) ==
    /\ alive /\ sessions[s].flow = "pair" /\ sessions[s].openTask = "cleanup"
    /\ CleanupSession(SessionDir(s))
    /\ Put(s, [sessions[s] EXCEPT !.openTask = "done", !.exitTimer = "armed"])
    /\ UNCHANGED <<signal, statusReply, variant, alive, clock>>

\* pair.js:129-132: the 3 s timer runs process.exit(0); it was set after the
\* delay(3000) of pair.js:152 began, so that delay is over
PairExitFire(s) ==
    /\ alive /\ sessions[s].flow = "pair" /\ sessions[s].exitTimer = "armed"
    /\ sessions[s].pc # "stabilize"
    /\ alive' = FALSE
    /\ Put(s, [sessions[s] EXCEPT !.exitTimer = "fired"])
    /\ UNCHANGED <<signal, statusReply, variant, clock, fsDirs, activeSessions>>

\* statusCode !== DisconnectReason.loggedOut (pair.js:137)
ShouldReconnect(code) == code # LoggedOut

\* pair.js:135-145: connection === "close": a terminal reason awaits
\* cleanupSession, any other reason is logged
PairClose(s, code) ==
    /\ alive /\ sessions[s].flow = "pair"
    /\ sessions[s].sock \in {"live", "open"} /\ sessions[s].listening
    /\ sessions[s].closeTask = "idle"
    /\ IF ShouldReconnect(code)
       THEN Put(s, [sessions[s] EXCEPT !.sock = "closed", !.closes = @ + 1])
       ELSE Put(s, [Tag(sessions[s], "termClose") EXCEPT !.sock = "closed", !.closeTask = "cleanup"])
    /\ UNCHANGED <<signal, statusReply, variant, alive, clock, fsDirs, activeSessions>>

\* pair.js:144: cleanupSession of the terminal close resolved
PairCloseCleanupDone(s) ==
    /\ alive /\ sessions[s].flow = "pair" /\ sessions[s].closeTask = "cleanup"
    /\ CleanupSession(SessionDir(s))
    /\ Put(s, [sessions[s] EXCEPT !.closeTask = "done"])
    /\ UNCHANGED <<signal, statusReply, variant, alive, clock>>

\* pair.js:172-174: SESSION_TIMEOUT passed: the callback awaits cleanupSession
PairTimerFire(s) ==
    /\ alive /\ sessions[s].flow = "pair" /\ sessions[s].timer = "armed"
    /\ Put(s, [sessions[s] EXCEPT !.timer = "fired", !.ttask = "cleanup"])
    /\ UNCHANGED <<signal, statusReply, variant, alive, clock, fsDirs, activeSessions>>

\* pair.js:174-177: cleanup done, bot.logout() awaited
PairTimerCleanupDone(s) ==
    /\ alive /\ sessions[s].flow = "pair" /\ sessions[s].ttask = "cleanup"
    /\ CleanupSession(SessionDir(s))
    /\ Put(s, [sessions[s] EXCEPT !.ttask = "logout"])
    /\ UNCHANGED <<signal, statusReply, variant, alive, clock>>

\* pair.js:177-182: logout resolved or rejected (caught), process.exit(0)
PairTimerLogoutDone(s) ==
    /\ alive /\ sessions[s].flow = "pair" /\ sessions[s].ttask = "logout"
    /\ alive' = FALSE
    /\ Put(s, [sessions[s] EXCEPT !.ttask = "done", !.sock = "closed"])
    /\ UNCHANGED <<signal, statusReply, variant, clock, fsDirs, activeSessions>>

PairNext ==
    \E s \in Sessions :
        \/ \E n \in Numbers : PairRequest(s, n)
        \/ PairAuthDone(s)
        \/ PairInitFail(s)
        \/ \E b \in BOOLEAN : PairDelayDone(s, b)
        \/ PairCodeOk(s)
        \/ PairCodeFail(s)
        \/ PairCleanupDone(s)
        \/ PairOpen(s)
        \/ PairSendSettled(s)
        \/ PairOpenCleanupDone(s)
        \/ PairExitFire(s)
        \/ \E code \in CloseReasons : PairClose(s, code)
        \/ PairCloseCleanupDone(s)
        \/ PairTimerFire(s)
        \/ PairTimerCleanupDone(s)
        \/ PairTimerLogoutDone(s)

\* ------------------------------------------- pair.js  SIGTERM / SIGINT
\* clearTimeout(timeoutId) of the entry under key k (pair.js:244,253): the
\* timer of the request that set the entry no longer fires
ClearTimeout(ss, k) ==
    [s \in Sessions |->
        IF k \in DOMAIN activeSessions /\ activeSessions[k].owner = s /\ ss[s].timer = "armed"
        THEN [ss[s] EXCEPT !.timer = "cleared"]
        ELSE ss[s]]

\* pair.js:242-247,251-256: the for-of loop over activeSessions moves on.
\* With an entry not yet visited: clearTimeout, then cleanupSession is
\* awaited.  Without: process.exit(0).
SignalLoop(map, seen) ==
    LET todo == DOMAIN map \ seen IN
    IF todo = {}
    THEN /\ alive' = FALSE
         /\ signal' = [phase |-> "done", key |-> <<"nil">>, seen |-> seen]
         /\ UNCHANGED sessions
    ELSE \E k \in todo :
         /\ signal' = [phase |-> "cleaning", key |-> k, seen |-> seen \cup {k}]
         /\ sessions' = ClearTimeout(sessions, k)
         /\ UNCHANGED alive

\* pair.js:241-243, 250-252: SIGTERM or SIGINT arrives, the handler enters the loop
PairSignal ==
    /\ alive /\ variant = "pair" /\ signal.phase = "idle"
    /\ SignalLoop(activeSessions, {})
    /\ UNCHANGED <<variant, clock, fsDirs, activeSessions, statusReply>>

\* pair.js:245-247, 254-256: the awaited cleanupSession returned; next entry or exit
PairSignalCleanupDone ==
    /\ alive /\ variant = "pair" /\ signal.phase = "cleaning"
    /\ \E rmOk \in RmOutcomes(fsDirs, signal.key) :
          LET after == CleanupResult(fsDirs, activeSessions, signal.key, rmOk) IN
          /\ fsDirs' = after.dirs
          /\ activeSessions' = after.map
          /\ SignalLoop(after.map, signal.seen)
    /\ UNCHANGED <<variant, clock, statusReply>>

SignalNext == PairSignal \/ PairSignalCleanupDone

\* =========================== part_000:19-112  GET /  (retrying code flow)
\* part_000:10-17 removeFile: nothing when the path is absent, else fs.rmSync;
\* a throw of rmSync is caught and logged
RemoveFileResult(dirs, dir, rmOk) == IF rmOk THEN dirs \ {dir} ELSE dirs

RemoveFile(dir) ==
    \E rmOk \in RmOutcomes(fsDirs, dir) : fsDirs' = RemoveFileResult(fsDirs, dir, rmOk)

\* part_000:19-27,111: no validation; removeFile(dirs), then initiateSession()
\* runs up to its await of useMultiFileAuthState(dirs)
RetryRequest(s, n) ==
    /\ alive /\ variant = "retry" /\ FreeSlot(s)
    /\ LET r0 == [Fresh EXCEPT !.flow = "retry", !.number = n, !.pc = "auth"] IN
       /\ RemoveFile(<<"./", SessionIdOf(r0, s)>>)
       /\ Put(s, r0)
    /\ UNCHANGED <<signal, statusReply, variant, alive, clock, activeSessions>>

\* part_000:27-50,103-108: the auth state is loaded (the directory exists), the
\* socket is made.  Registered: the listeners are attached at once.  Otherwise
\* delay(2000), then num.replace: a TypeError for an absent number, caught with
\* the guarded 503; else requestPairingCode is awaited.
RetryAuthDone(s, registered) ==
    /\ alive /\ sessions[s].flow = "retry" /\ sessions[s].pc = "auth"
    /\ fsDirs' = fsDirs \cup {SessionDir(s)}
    /\ LET r1 == [Tag(sessions[s], "storage") EXCEPT !.sock = "live", !.listening = FALSE] IN
       IF registered
       THEN Put(s, [Tag(r1, "registered") EXCEPT !.listening = TRUE, !.pc = "done"])
       ELSE IF sessions[s].number = NoNumber
       THEN Put(s, [GuardedSend(s, Tag(r1, "initFail"), Resp(503, "unavailable")) EXCEPT !.pc = "done"])
       ELSE Put(s, [r1 EXCEPT !.pc = "request"])
    /\ UNCHANGED <<signal, statusReply, variant, alive, clock, activeSessions>>

\* part_000:43-51: the code arrived: guarded res.send, then the listeners are attached
RetryCodeOk(s) ==
    /\ alive /\ sessions[s].flow = "retry" /\ sessions[s].pc = "request"
    /\ Put(s, [GuardedSend(s, sessions[s], Resp(200, "code")) EXCEPT !.listening = TRUE, !.pc = "done"])
    /\ UNCHANGED <<signal, statusReply, variant, alive, clock, fsDirs, activeSessions>>

\* part_000:43,103-108: requestPairingCode rejected: guarded 503, no listener
RetryCodeFail(s) ==
    /\ alive /\ sessions[s].flow = "retry" /\ sessions[s].pc = "request"
    /\ Put(s, [GuardedSend(s, Tag(sessions[s], "credFail"), Resp(503, "unavailable")) EXCEPT !.pc = "done"])
    /\ UNCHANGED <<signal, statusReply, variant, alive, clock, fsDirs, activeSessions>>

\* part_000:54-55: connection === "open": delay(10000) is awaited
RetryOpen(s) ==
    /\ alive /\ sessions[s].flow = "retry"
    /\ sessions[s].sock = "live" /\ sessions[s].listening
    /\ sessions[s].openTask \in {"idle", "done", "aborted"}
    /\ Put(s, [sessions[s] EXCEPT !.sock = "open", !.openTask = "delay"])
    /\ UNCHANGED <<signal, statusReply, variant, alive, clock, fsDirs, activeSessions>>

\* part_000:56-70: fs.readFileSync(dirs + '/creds.json') throws when the
\* directory is gone (the handler's promise rejects); else the upload starts
RetryOpenDelayDone(s) ==
    /\ alive /\ sessions[s].flow = "retry" /\ sessions[s].openTask = "delay"
    /\ IF DirExists(s)
       THEN Put(s, [sessions[s] EXCEPT !.openTask = "relay"])
       ELSE Put(s, [sessions[s] EXCEPT !.openTask = "aborted"])
    /\ UNCHANGED <<signal, statusReply, variant, alive, clock, fsDirs, activeSessions>>

\* part_000:70-85: upload and both sendMessage calls resolved, delay(100)
\* passed, removeFile(dirs).  Any of the awaited calls rejecting ends the
\* handler: nothing catches it.
RetryRelaySettled(s, ok) ==
    /\ alive /\ sessions[s].flow = "retry" /\ sessions[s].openTask = "relay"
    /\ IF ok
       THEN /\ RemoveFile(SessionDir(s))
            /\ Put(s, [sessions[s] EXCEPT !.openTask = "done"])
       ELSE /\ UNCHANGED fsDirs
            /\ Put(s, [sessions[s] EXCEPT !.openTask = "aborted"])
    /\ UNCHANGED <<signal, statusReply, variant, alive, clock, activeSessions>>

\* part_000:89-90: `s` is the update object of this one event: s.retryCount is
\* undefined on it, set to 0 and incremented
UpdateRetryCount(update) == IF "retryCount" \in DOMAIN update THEN update.retryCount ELSE 0
RetryCountAfter(update) == UpdateRetryCount(update) + 1

RECURSIVE SumCloses(_)
SumCloses(S) ==
    IF S = {} THEN 0
    ELSE LET s == CHOOSE x \in S : TRUE IN sessions[s].closes + SumCloses(S \ {s})

\* non-terminal closes delivered so far, over all requests
TotalCloses == SumCloses(Sessions)

RECURSIVE SumRepeats(_)
SumRepeats(S) ==
    IF S = {} THEN 0
    ELSE LET s == CHOOSE x \in S : TRUE IN sessions[s].repeats + SumRepeats(S \ {s})

\* close events delivered a second time so far, over all requests
TotalRepeats == SumRepeats(Sessions)

\* part_000:86: connection === 'close' with an error whose statusCode is not 401
IsRetryClose(update) == update.connection = "close" /\ update.statusCode # LoggedOut

\* part_000:86-100: a close the condition accepts: retryCount <= 3 awaits
\* delay(10000), else the guarded 408.  A close with statusCode 401 matches no branch.
RetryClose(s, code) ==
    /\ alive /\ sessions[s].flow = "retry"
    /\ sessions[s].sock \in {"live", "open"} /\ sessions[s].listening
    /\ TotalCloses < MaxAttempts
    /\ LET update == [connection |-> "close", statusCode |-> code]
           r1 == [sessions[s] EXCEPT !.sock = "closed", !.listening = FALSE] IN
       IF IsRetryClose(update)
       THEN IF RetryCountAfter(update) <= MaxRetries
            THEN Put(s, [r1 EXCEPT !.closes = @ + 1, !.backoff = @ + 1])
            ELSE Put(s, [GuardedSend(s, r1, Resp(408, "retries")) EXCEPT !.closes = @ + 1])
       ELSE Put(s, Tag(r1, "termClose"))
    /\ UNCHANGED <<signal, statusReply, variant, alive, clock, fsDirs, activeSessions>>

\* part_000:51,86-94: the listener stays on the closed socket (nothing removes
\* it): a further close event of that socket, arriving while the handler of
\* the first one waits in delay(10000), runs the same branch on its own
\* update object and waits in a delay of its own
RetryCloseAgain(s, code) ==
    /\ alive /\ sessions[s].flow = "retry"
    /\ sessions[s].sock = "closed" /\ sessions[s].backoff > 0
    /\ TotalCloses < MaxAttempts /\ TotalRepeats < MaxRepeats
    /\ LET update == [connection |-> "close", statusCode |-> code] IN
       /\ IsRetryClose(update)
       /\ RetryCountAfter(update) <= MaxRetries
       /\ Put(s, [sessions[s] EXCEPT !.closes = @ + 1, !.backoff = @ + 1, !.repeats = @ + 1])
    /\ UNCHANGED <<signal, statusReply, variant, alive, clock, fsDirs, activeSessions>>

\* part_000:93-94,26-27: a backoff passed: initiateSession() is called again
\* (not awaited) and runs up to its await of useMultiFileAuthState.  Of two
\* pending backoffs the later is taken up once the call of the earlier returned.
RetryBackoffDone(s) ==
    /\ alive /\ sessions[s].flow = "retry" /\ sessions[s].backoff > 0
    /\ sessions[s].pc = "done"
    /\ Put(s, [sessions[s] EXCEPT !.backoff = @ - 1, !.attempts = @ + 1, !.pc = "auth"])
    /\ UNCHANGED <<signal, statusReply, variant, alive, clock, fsDirs, activeSessions>>

RetryStep(s) ==
        \/ \E n \in Numbers : RetryRequest(s, n)
        \/ \E b \in BOOLEAN : RetryAuthDone(s, b)
        \/ RetryCodeOk(s)
        \/ RetryCodeFail(s)
        \/ RetryOpen(s)
        \/ RetryOpenDelayDone(s)
        \/ \E ok \in BOOLEAN : RetryRelaySettled(s, ok)
        \/ \E code \in CloseReasons : RetryClose(s, code)
        \/ RetryBackoffDone(s)

RetryNext == \E s \in Sessions : RetryStep(s)

\* ================================================= part_000:294-409  GET /qr
\* part_000:294-301: sessionId from Date.now(), await useMultiFileAuthState
QrRequest(s) ==
    /\ alive /\ variant = "qrphone" /\ FreeSlot(s)
    /\ Put(s, [Fresh EXCEPT !.flow = "qr", !.stamp = clock, !.pc = "auth"])
    /\ UNCHANGED <<signal, statusReply, variant, alive, clock, fsDirs, activeSessions>>

\* part_000:301-396: the directory exists, the socket is made, the listeners
\* attached, the 30 s QR timeout armed; the handler returns
QrAuthDone(s) ==
    /\ alive /\ sessions[s].flow = "qr" /\ sessions[s].pc = "auth"
    /\ fsDirs' = fsDirs \cup {SessionDir(s)}
    /\ Put(s, [Tag(sessions[s], "storage") EXCEPT
                  !.sock = "live", !.listening = TRUE, !.timer = "armed", !.pc = "done"])
    /\ UNCHANGED <<signal, statusReply, variant, alive, clock, activeSessions>>

\* part_000:398-400: useMultiFileAuthState or makeWASocket threw; the catch awaits cleanupSession
QrInitFail(s) ==
    /\ alive /\ sessions[s].flow = "qr" /\ sessions[s].pc = "auth"
    /\ Put(s, [Tag(sessions[s], "initFail") EXCEPT !.pc = "cleanupInit"])
    /\ UNCHANGED <<signal, statusReply, variant, alive, clock, fsDirs, activeSessions>>

\* part_000:400-407: cleanup done, guarded 500
QrInitCleanupDone(s) ==
    /\ alive /\ sessions[s].flow = "qr" /\ sessions[s].pc = "cleanupInit"
    /\ CleanupSession(SessionDir(s))
    /\ Put(s, [GuardedSend(s, sessions[s], Resp(500, "init")) EXCEPT !.pc = "done"])
    /\ UNCHANGED <<signal, statusReply, variant, alive, clock>>

\* `qr && !qrGenerated` (part_000:326)
QrAccepted(s) == ~sessions[s].qrGenerated

\* part_000:326-332: an update carrying a qr token: the first one sets
\* qrGenerated and awaits qrcode.toDataURL; later ones match no branch
QrToken(s) ==
    /\ alive /\ sessions[s].flow = "qr"
    /\ sessions[s].sock = "live" /\ sessions[s].listening
    /\ IF QrAccepted(s)
       THEN Put(s, [sessions[s] EXCEPT !.qrGenerated = TRUE, !.qrTask = "encode"])
       ELSE Put(s, sessions[s])
    /\ UNCHANGED <<signal, statusReply, variant, alive, clock, fsDirs, activeSessions>>

\* part_000:332-353: the image is ready: activeSessions.set(sessionId, ...)
\* and the unguarded res.json (a throw is caught; the catch's 500 is guarded);
\* toDataURL rejecting goes to the catch at once
QrEncoded(s, ok) ==
    /\ alive /\ sessions[s].flow = "qr" /\ sessions[s].qrTask = "encode"
    /\ IF ok
       THEN /\ activeSessions' = MapSet(activeSessions, SessionId(s), [owner |-> s, connected |-> FALSE])
            /\ Put(s, [BareSend(s, sessions[s], Resp(200, "qr")) EXCEPT !.qrTask = "done"])
       ELSE /\ UNCHANGED activeSessions
            /\ Put(s, [GuardedSend(s, Tag(sessions[s], "credFail"), Resp(500, "qr")) EXCEPT !.qrTask = "done"])
    /\ UNCHANGED <<signal, statusReply, variant, alive, clock, fsDirs>>

\* part_000:356-369: connection === "open": with an entry under sessionId,
\* connected is set on it and sendMessage awaited; without, nothing
QrOpen(s) ==
    /\ alive /\ sessions[s].flow = "qr"
    /\ sessions[s].sock = "live" /\ sessions[s].listening
    /\ IF SessionId(s) \in DOMAIN activeSessions
       THEN /\ activeSessions' = [activeSessions EXCEPT ![SessionId(s)].connected = TRUE]
            /\ Put(s, [sessions[s] EXCEPT !.sock = "open", !.openTask = "send"])
       ELSE /\ UNCHANGED activeSessions
            /\ Put(s, [sessions[s] EXCEPT !.sock = "open"])
    /\ UNCHANGED <<signal, statusReply, variant, alive, clock, fsDirs>>

\* part_000:369-380: the message was sent or failed (caught); the 30 s exit timer is set
QrSendSettled(s) ==
    /\ alive /\ sessions[s].flow = "qr" /\ sessions[s].openTask = "send"
    /\ Put(s, [sessions[s] EXCEPT !.openTask = "done", !.exitTimer = "armed"])
    /\ UNCHANGED <<signal, statusReply, variant, alive, clock, fsDirs, activeSessions>>

\* part_000:377-378: the exit timer fires (30 s, set after the QR timeout
\* of the same request, so after it): cleanupSession awaited
QrExitFire(s) ==
    /\ alive /\ sessions[s].flow = "qr" /\ sessions[s].exitTimer = "armed"
    /\ sessions[s].timer # "armed"
    /\ Put(s, [sessions[s] EXCEPT !.exitTimer = "fired", !.etask = "cleanup"])
    /\ UNCHANGED <<signal, statusReply, variant, alive, clock, fsDirs, activeSessions>>

\* part_000:378-379: cleanup done, process.exit(0)
QrExitCleanupDone(s) ==
    /\ alive /\ sessions[s].flow = "qr" /\ sessions[s].etask = "cleanup"
    /\ CleanupSession(SessionDir(s))
    /\ alive' = FALSE
    /\ Put(s, [sessions[s] EXCEPT !.etask = "done"])
    /\ UNCHANGED <<signal, statusReply, variant, clock>>

\* part_000:384-386: connection === "close", whatever the reason: cleanupSession awaited
QrClose(s) ==
    /\ alive /\ sessions[s].flow = "qr"
    /\ sessions[s].sock \in {"live", "open"} /\ sessions[s].listening
    /\ Put(s, [sessions[s] EXCEPT !.sock = "closed", !.closeTask = "cleanup"])
    /\ UNCHANGED <<signal, statusReply, variant, alive, clock, fsDirs, activeSessions>>

\* part_000:386: cleanupSession(sessionDir) resolved
QrCloseCleanupDone(s) ==
    /\ alive /\ sessions[s].flow = "qr" /\ sessions[s].closeTask = "cleanup"
    /\ CleanupSession(SessionDir(s))
    /\ Put(s, [sessions[s] EXCEPT !.closeTask = "done"])
    /\ UNCHANGED <<signal, statusReply, variant, alive, clock>>

\* `!qrGenerated && !res.headersSent` (part_000:392)
QrTimeoutActs(s) == ~sessions[s].qrGenerated /\ ~HeadersSent(s)

\* part_000:391-396: the QR timeout: 408 and cleanupSession (not awaited)
QrTimerFire(s) ==
    /\ alive /\ sessions[s].flow = "qr" /\ sessions[s].timer = "armed"
    /\ IF QrTimeoutActs(s)
       THEN Put(s, [sessions[s] EXCEPT !.timer = "fired", !.resp = Resp(408, "timeout"),
                                       !.sendAttempts = @ + 1, !.bgCleanup = TRUE])
       ELSE Put(s, [sessions[s] EXCEPT !.timer = "fired"])
    /\ UNCHANGED <<signal, statusReply, variant, alive, clock, fsDirs, activeSessions>>

\* part_000:394: the timeout's cleanupSession resolved
QrTimeoutCleanupDone(s) ==
    /\ alive /\ sessions[s].flow = "qr" /\ sessions[s].bgCleanup
    /\ CleanupSession(SessionDir(s))
    /\ Put(s, [sessions[s] EXCEPT !.bgCleanup = FALSE])
    /\ UNCHANGED <<signal, statusReply, variant, alive, clock>>

QrNext ==
    \E s \in Sessions :
        \/ QrRequest(s)
        \/ QrAuthDone(s)
        \/ QrInitFail(s)
        \/ QrInitCleanupDone(s)
        \/ QrToken(s)
        \/ \E ok \in BOOLEAN : QrEncoded(s, ok)
        \/ QrOpen(s)
        \/ QrSendSettled(s)
        \/ QrExitFire(s)
        \/ QrExitCleanupDone(s)
        \/ QrClose(s)
        \/ QrCloseCleanupDone(s)
        \/ QrTimerFire(s)
        \/ QrTimeoutCleanupDone(s)

\* ============================================== part_000:427-501  GET /phone
\* part_000:427-440: only a falsy number is refused; then the directory name
\* from cleanNumber and Date.now(), await useMultiFileAuthState
PhoneRequest(s, n) ==
    /\ alive /\ variant = "qrphone" /\ FreeSlot(s)
    /\ LET r0 == [Fresh EXCEPT !.flow = "phone", !.number = n, !.stamp = clock] IN
       IF Falsy(n)
       THEN Put(s, [r0 EXCEPT !.resp = Resp(400, "required"), !.sendAttempts = 1, !.pc = "done"])
       ELSE Put(s, [r0 EXCEPT !.pc = "auth"])
    /\ UNCHANGED <<signal, statusReply, variant, alive, clock, fsDirs, activeSessions>>

\* part_000:440-461,488: the directory exists, the socket is made (no
\* connection.update listener).  Not registered: delay(3000), then
\* requestPairingCode awaited.  Registered: the handler returns.
PhoneAuthDone(s, registered) ==
    /\ alive /\ sessions[s].flow = "phone" /\ sessions[s].pc = "auth"
    /\ fsDirs' = fsDirs \cup {SessionDir(s)}
    /\ LET r1 == [Tag(sessions[s], "storage") EXCEPT !.sock = "live"] IN
       IF registered
       THEN Put(s, [Tag(r1, "registered") EXCEPT !.pc = "done"])
       ELSE Put(s, [r1 EXCEPT !.pc = "request"])
    /\ UNCHANGED <<signal, statusReply, variant, alive, clock, activeSessions>>

\* part_000:490-492: useMultiFileAuthState or makeWASocket threw; the catch awaits cleanupSession
PhoneInitFail(s) ==
    /\ alive /\ sessions[s].flow = "phone" /\ sessions[s].pc = "auth"
    /\ Put(s, [Tag(sessions[s], "initFail") EXCEPT !.pc = "cleanupInit"])
    /\ UNCHANGED <<signal, statusReply, variant, alive, clock, fsDirs, activeSessions>>

\* part_000:461-475: the code arrived: unguarded res.json, the 45 s timer armed
PhoneCodeOk(s) ==
    /\ alive /\ sessions[s].flow = "phone" /\ sessions[s].pc = "request"
    /\ Put(s, [BareSend(s, sessions[s], Resp(200, "code")) EXCEPT !.timer = "armed", !.pc = "done"])
    /\ UNCHANGED <<signal, statusReply, variant, alive, clock, fsDirs, activeSessions>>

\* part_000:477-479: requestPairingCode rejected; the catch awaits cleanupSession
PhoneCodeFail(s) ==
    /\ alive /\ sessions[s].flow = "phone" /\ sessions[s].pc = "request"
    /\ Put(s, [Tag(sessions[s], "credFail") EXCEPT !.pc = "cleanupFail"])
    /\ UNCHANGED <<signal, statusReply, variant, alive, clock, fsDirs, activeSessions>>

\* part_000:479-486, 492-499: cleanup done, unguarded res.json({success: false, ...})
PhoneCleanupDone(s) ==
    /\ alive /\ sessions[s].flow = "phone"
    /\ sessions[s].pc \in {"cleanupFail", "cleanupInit"}
    /\ CleanupSession(SessionDir(s))
    /\ Put(s, [BareSend(s, sessions[s],
                        Resp(200, IF sessions[s].pc = "cleanupFail" THEN "failed" ELSE "unavailable"))
                  EXCEPT !.pc = "done"])
    /\ UNCHANGED <<signal, statusReply, variant, alive, clock>>

\* part_000:472-473: the 45 s timer fires: cleanupSession awaited
PhoneTimerFire(s) ==
    /\ alive /\ sessions[s].flow = "phone" /\ sessions[s].timer = "armed"
    /\ Put(s, [sessions[s] EXCEPT !.timer = "fired", !.ttask = "cleanup"])
    /\ UNCHANGED <<signal, statusReply, variant, alive, clock, fsDirs, activeSessions>>

\* part_000:473-474: cleanup done, process.exit(0)
PhoneTimerCleanupDone(s) ==
    /\ alive /\ sessions[s].flow = "phone" /\ sessions[s].ttask = "cleanup"
    /\ CleanupSession(SessionDir(s))
    /\ alive' = FALSE
    /\ Put(s, [sessions[s] EXCEPT !.ttask = "done"])
    /\ UNCHANGED <<signal, statusReply, variant, clock>>

PhoneNext ==
    \E s \in Sessions :
        \/ \E n \in Numbers : PhoneRequest(s, n)
        \/ \E b \in BOOLEAN : PhoneAuthDone(s, b)
        \/ PhoneInitFail(s)
        \/ PhoneCodeOk(s)
        \/ PhoneCodeFail(s)
        \/ PhoneCleanupDone(s)
        \/ PhoneTimerFire(s)
        \/ PhoneTimerCleanupDone(s)

\* ===================================== part_000:412-424  GET /status/:sessionId
\* the ids a caller can ask for: those /qr hands out, and one never issued
StatusIds == {<<"ts", c>> : c \in 0..MaxClock} \cup {<<"never">>}

\* part_000:413-424: activeSessions.get(sessionId): without an entry
\* {connected: false, error}; with one {connected: session.connected, message}
StatusBody(map, id) ==
    IF id \notin DOMAIN map
    THEN [id |-> id, connected |-> FALSE, error |-> TRUE, asked |-> TRUE]
    ELSE [id |-> id, connected |-> map[id].connected, error |-> FALSE, asked |-> TRUE]

StatusRequest(id) ==
    /\ alive /\ variant = "qrphone"
    /\ statusReply' = StatusBody(activeSessions, id)
    /\ UNCHANGED <<signal, variant, alive, clock, fsDirs, activeSessions, sessions>>

StatusNext == \E id \in StatusIds : StatusRequest(id)

Next ==
    \/ Tick
    \/ StatusNext
    \/ SignalNext
    \/ PairNext
    \/ RetryNext
    \/ QrNext
    \/ PhoneNext

Spec == Init /\ [][Next]_vars

\* The retrying flow of one request under a gateway that can deliver the
\* close event of a socket once more (the listener of part_000:51 is never
\* removed, and nothing in the handler tells a repeated event from a first).
InitRepeat == Init /\ variant = "retry"

\* the slot the first request takes
FirstSession == {s \in Sessions : \A t \in Sessions : s <= t}

NextRepeat ==
    \E s \in FirstSession :
        \/ RetryStep(s)
        \/ \E code \in CloseReasons : RetryCloseAgain(s, code)

SpecRepeat == InitRepeat /\ [][NextRepeat]_vars

\* ================================================================ claims
\* A task of request s is suspended at an await, or one of its timers is armed.
Pending(s) ==
    LET r == sessions[s] IN
    \/ r.pc # "done"
    \/ r.openTask \in {"send", "cleanup", "delay", "relay"}
    \/ r.closeTask = "cleanup"
    \/ r.ttask \in {"cleanup", "logout"}
    \/ r.etask = "cleanup"
    \/ r.qrTask = "encode"
    \/ r.bgCleanup
    \/ r.backoff > 0
    \/ r.timer = "armed"
    \/ r.exitTimer = "armed"

\* Nothing can run for request s any more: no task pending, and no socket
\* with a connection.update listener that can still deliver an event.
Settled(s) ==
    /\ alive
    /\ sessions[s].flow # "none"
    /\ ~Pending(s)
    /\ ~(sessions[s].listening /\ sessions[s].sock \in {"live", "open"})

\* C1: every pairing request ends with exactly one outcome: once nothing can
\* run for the request any more, a response has been sent to the caller (and
\* res holds one response only, headersSent being set once).
C1_ExactlyOneOutcome ==
    \A s \in Sessions : Settled(s) => HeadersSent(s)

\* C2: once a credential (pairing code or QR image) was delivered, no later
\* step of the request calls res.send/res.json again and the response stays
\* the credential: later failures, timer expiries and qr tokens are absorbed.
C2_CredentialAbsorbsLaterEvents ==
    [][\A s \in Sessions :
         IsCredential(sessions[s].resp) =>
            /\ sessions'[s].resp = sessions[s].resp
            /\ sessions'[s].sendAttempts = sessions[s].sendAttempts]_vars

\* C2 witness: the retrying flow delivered the code, and on a later round
\* requestPairingCode failed (after a failed round no listener is left, so the
\* failure is the later of the two).
C2_Witness ==
    \E s \in Sessions :
        /\ sessions[s].flow = "retry"
        /\ IsCredential(sessions[s].resp)
        /\ "credFail" \in sessions[s].hist
        /\ sessions[s].attempts >= 1
        /\ sessions[s].pc = "done"

\* The request reached a terminal phase, or the post-connection cleanup, and
\* the handler of that transition ran to its end.
TerminalDone(s) ==
    LET r == sessions[s] IN
    \/ r.closeTask = "done"
    \/ "termClose" \in r.hist /\ r.closeTask = "idle"
    \/ r.ttask \in {"logout", "done"}
    \/ r.resp.kind = "timeout" /\ ~r.bgCleanup
    \/ r.pc = "done" /\ r.hist \cap {"credFail", "registered", "initFail"} # {}
    \/ r.flow \in {"pair", "retry"} /\ r.openTask = "done"
    \/ r.etask = "done"

\* C3: after a terminal phase (terminal close, timeout, credential failure,
\* already-registered) or the post-connection cleanup, the session map holds
\* no entry of the session and its working directory does not exist.
C3_TerminalLeavesNothing ==
    \A s \in Sessions : TerminalDone(s) => ~DirExists(s) /\ ~InStore(s)

\* C4: the reconnection attempts of one request never exceed the ceiling of 3.
C4_AttemptsWithinCeiling ==
    \A s \in Sessions : sessions[s].attempts <= MaxRetries

\* C5: when the gateway closed non-terminally on every attempt and no
\* credential was delivered, then past the third retry round (the fourth
\* such close) the caller has a failure outcome, the working directory is
\* deleted, and no further retry is pending or started.
C5_RetriesExhaustedIsTerminal ==
    \A s \in Sessions :
        (sessions[s].closes > MaxRetries /\ ~IsCredential(sessions[s].resp)) =>
            /\ HeadersSent(s)
            /\ ~DirExists(s)
            /\ sessions[s].backoff = 0
            /\ sessions[s].attempts <= MaxRetries

\* The gateway reported opened for s.
Opened(s) == sessions[s].sock = "open" \/ sessions[s].openTask # "idle"

\* The deadline timer of s fires in this step and its callback acts.
ExpiryActs(s) ==
    /\ sessions[s].timer = "armed"
    /\ sessions'[s].timer = "fired"
    /\ \/ sessions'[s].ttask # sessions[s].ttask
       \/ sessions'[s].bgCleanup # sessions[s].bgCleanup
       \/ sessions'[s].resp # sessions[s].resp

\* C6: after the gateway reported opened, or after the cleanup of a close
\* ended, the deadline timer's expiry action (cleanup, logout, exit, timeout
\* response) never runs for that session.
C6_NoExpiryAfterConnectedOrTerminal ==
    [][\A s \in Sessions :
         (Opened(s) \/ sessions[s].closeTask = "done") => ~ExpiryActs(s)]_vars

\* C7: after the timeout outcome was delivered, a late qr event is a no-op:
\* no response is attempted, the session is not registered in the session
\* map, and qrGenerated and the response do not change.
C7_LateCredentialIsNoOp ==
    [][\A s \in Sessions :
         sessions[s].resp.kind = "timeout" =>
            /\ sessions'[s].sendAttempts = sessions[s].sendAttempts
            /\ sessions'[s].resp = sessions[s].resp
            /\ sessions'[s].qrGenerated = sessions[s].qrGenerated
            /\ InStore(s)' = InStore(s)]_vars

\* C8: a code-flow request whose number is missing, empty or malformed is
\* answered 400 before any session exists: no working directory was
\* allocated and no gateway connection opened for it.
C8_InvalidNumberCreatesNothing ==
    \A s \in Sessions :
        (sessions[s].flow \in {"pair", "retry", "phone"} /\ ~ValidNumber(sessions[s].number)) =>
            /\ "storage" \notin sessions[s].hist
            /\ sessions[s].sock = "none"
            /\ sessions[s].pc = "done" => sessions[s].resp.status = 400

\* C9: when the gateway reports the target as already registered, the
\* request ends with the 400 outcome, the session cleaned up (no directory,
\* no map entry) and no retry pending.
C9_RegisteredFailsAtOnce ==
    \A s \in Sessions :
        ("registered" \in sessions[s].hist /\ sessions[s].pc = "done") =>
            /\ sessions[s].resp = Resp(400, "registered")
            /\ ~DirExists(s)
            /\ ~InStore(s)
            /\ sessions[s].backoff = 0

\* C10: once the handler of a close with the terminal reason (401) ended, the
\* working directory is deleted, the session is removed from the store, and
\* no retry is pending.
C10_TerminalCloseCleansUp ==
    \A s \in Sessions :
        ("termClose" \in sessions[s].hist /\ sessions[s].closeTask # "cleanup") =>
            /\ ~DirExists(s)
            /\ ~InStore(s)
            /\ sessions[s].backoff = 0

\* C11: in every code flow, a close with a non-terminal reason while fewer
\* than 3 attempts were made counts one attempt and starts the backoff that
\* reopens the connection: every such close is matched by a retry that is
\* pending or was started.
C11_NonTerminalCloseRetries ==
    \A s \in Sessions :
        (/\ sessions[s].flow \in {"pair", "retry", "phone"}
         /\ sessions[s].closes >= 1
         /\ sessions[s].closes <= MaxRetries) =>
            sessions[s].attempts + sessions[s].backoff >= sessions[s].closes

\* A cleanupSession call made for s has returned.
CleanupRan(s) ==
    LET r == sessions[s] IN
    \/ r.flow = "pair" /\ r.openTask = "done"
    \/ r.flow \in {"pair", "qr"} /\ r.closeTask = "done"
    \/ r.ttask \in {"logout", "done"}
    \/ r.etask = "done"
    \/ r.resp.kind = "timeout" /\ ~r.bgCleanup
    \/ /\ r.flow \in {"pair", "qr", "phone"} /\ r.pc = "done"
       /\ r.hist \cap {"credFail", "registered", "initFail"} # {}
       /\ ~(r.flow = "phone" /\ "registered" \in r.hist)

\* C12: process.exit runs only when every session of the process was
\* answered and, if it allocated working storage, was cleaned up: no exit
\* happens while a session is unanswered or still owns its storage.
C12_ExitAfterCleanupAndResponse ==
    ~alive =>
        \A s \in Sessions :
            sessions[s].flow # "none" =>
                /\ HeadersSent(s)
                /\ "storage" \in sessions[s].hist => CleanupRan(s)

\* Every session that was given the id is closed and cleaned up, or timed out
\* and cleaned up; an id no session was given is covered as well.
Expired(id) ==
    \A s \in Sessions :
        (sessions[s].flow = "qr" /\ SessionId(s) = id) =>
            \/ sessions[s].closeTask = "done"
            \/ sessions[s].resp.kind = "timeout" /\ ~sessions[s].bgCleanup

\* The gateway reported opened for a session that was given the id.
OpenedId(id) ==
    \E s \in Sessions :
        sessions[s].flow = "qr" /\ SessionId(s) = id /\ Opened(s)

\* C13: GET /status/:sessionId answers {connected: false, error} for an id
\* never issued and for an id whose session was closed or timed out and
\* cleaned up, and answers connected = true only when the gateway reported
\* opened for the session of that id.
C13_StatusOfUnknownIsError ==
    [][\A id \in StatusIds :
         (statusReply' # statusReply /\ statusReply'.id = id) =>
            /\ Expired(id) => (statusReply'.error /\ ~statusReply'.connected)
            /\ statusReply'.connected => OpenedId(id)]_vars

\* A cleanupSession call awaited for s returns in this step.
CleanupStep(s) ==
    LET r == sessions[s]
        q == sessions'[s] IN
    \/ r.pc \in {"cleanupFail", "cleanupReg", "cleanupInit"} /\ q.pc = "done"
    \/ r.openTask = "cleanup" /\ q.openTask = "done"
    \/ r.closeTask = "cleanup" /\ q.closeTask = "done"
    \/ r.ttask = "cleanup" /\ q.ttask # "cleanup"
    \/ r.etask = "cleanup" /\ q.etask = "done"
    \/ r.bgCleanup /\ ~q.bgCleanup

TerminalPhase(s) ==
    LET r == sessions[s] IN
    \/ r.flow \in {"pair", "qr"} /\ r.closeTask = "done"
    \/ r.ttask = "done"
    \/ r.resp.kind = "timeout" /\ ~r.bgCleanup
    \/ r.flow \in {"pair", "phone"} /\ r.pc = "done" /\ "credFail" \in r.hist
    \/ r.flow = "pair" /\ r.pc = "done" /\ "registered" \in r.hist

\* C15: a session in a terminal phase holds no live gateway connection: on
\* every path that calls cleanup the socket was closed or logged out before
\* or at the transition.
C15_TerminalHoldsNoConnection ==
    \A s \in Sessions :
        TerminalPhase(s) => sessions[s].sock \notin {"live", "open"}

\* The session exists and is not over: a task of it is pending or its socket
\* can still deliver events.
Active(s) == alive /\ sessions[s].flow # "none" /\ ~Settled(s)

\* C16: two sessions alive at the same time never have the same session id
\* or the same working directory.
C16_SessionsShareNothing ==
    \A s, t \in Sessions :
        (s # t /\ Active(s) /\ Active(t)) =>
            /\ SessionId(s) # SessionId(t)
            /\ SessionDir(s) # SessionDir(t)

\* The session reached Connected and its post-connection cleanup ended, or it
\* is in a terminal phase.
Over(s) ==
    \/ sessions[s].flow \in {"pair", "retry"} /\ sessions[s].openTask = "done"
    \/ "termClose" \in sessions[s].hist
    \/ TerminalPhase(s)

\* initiateSession() is entered again for s in this step: a new socket, the
\* directory re-created and (unless registered) a new pairing code follow.
RetryStarts(s) == sessions'[s].attempts > sessions[s].attempts

\* C17: once a session was connected and cleaned up, or reached a terminal
\* phase, no retry is started for it: neither a non-terminal close arriving
\* later nor a backoff in flight re-enters the session initiation.
C17_NoRetryAfterEnd ==
    [][\A s \in Sessions : Over(s) => ~RetryStarts(s)]_vars

\* A connection.update handler of s is suspended at an await.
HandlerSuspended(s) ==
    LET r == sessions[s] IN
    \/ r.openTask \in {"send", "cleanup", "delay", "relay"}
    \/ r.closeTask = "cleanup"
    \/ r.qrTask = "encode"
    \/ r.backoff > 0

\* The connection.update handler of s runs for an event in this step: an
\* open, a close, or a qr token that is taken.
HandlerStarts(s) ==
    LET r == sessions[s]
        q == sessions'[s] IN
    \/ r.sock = "live" /\ q.sock = "open"
    \/ r.sock \in {"live", "open"} /\ q.sock = "closed" /\ q.ttask = r.ttask
    \/ q.closes > r.closes
    \/ ~r.qrGenerated /\ q.qrGenerated

\* C18: the gateway events of one session are handled one at a time: while
\* the handler of one connection.update event is suspended at an await, the
\* handler of a later event of that session does not run.
C18_EventsHandledOneAtATime ==
    [][\A s \in Sessions : HandlerSuspended(s) => ~HandlerStarts(s)]_vars

\* C19: after the gateway reported opened, a failure of a post-connection
\* step (credential read, upload, message send) does not prevent cleanup:
\* the open handler never ends on a failed step with the working directory
\* left on disk.
C19_OpenedAlwaysCleansUp ==
    \A s \in Sessions :
        sessions[s].openTask = "aborted" => ~DirExists(s)

\* C20: a session has at most one retry backoff pending, and the close
\* events delivered for one connection start at most one new connection:
\* the retries pending or started never outnumber the connections that
\* were closed.
C20_OneBackoffPerConnection ==
    \A s \in Sessions :
        /\ sessions[s].backoff <= 1
        /\ sessions[s].attempts + sessions[s].backoff
              <= sessions[s].closes - sessions[s].repeats

\* Opening the connection or requesting the credential failed for s, in a
\* code flow, and the handler of the failure ran to its end.
GatewayFailed(s) ==
    LET r == sessions[s] IN
    /\ r.flow \in {"pair", "retry", "phone"}
    /\ r.pc = "done"
    /\ \/ "credFail" \in r.hist
       \/ r.flow \in {"pair", "phone"} /\ "initFail" \in r.hist

\* C21: when opening the connection or requesting the credential failed,
\* cleanup ran for the session, the caller has an answer which, unless a
\* credential had gone out before, is the gateway failure (500), no deadline
\* timer is armed and the session map holds no entry of the session.
C21_GatewayFailureOutcome ==
    \A s \in Sessions :
        GatewayFailed(s) =>
            /\ CleanupRan(s)
            /\ HeadersSent(s)
            /\ ~IsCredential(sessions[s].resp) => sessions[s].resp.status = 500
            /\ sessions[s].timer # "armed"
            /\ ~InStore(s)

\* The cleanup of the open branch or of a terminal close returned for s.
EventCleanupRan(s) ==
    sessions[s].openTask = "done" \/ sessions[s].closeTask = "done"

\* C22: in pair.js no entry of activeSessions refers to a session that was
\* cleaned up: after the cleanup of the open branch or of a terminal close
\* returned, no step adds an entry for that session to the map.
C22_NoEntryAfterCleanup ==
    [][\A s \in Sessions :
         (sessions[s].flow = "pair" /\ EventCleanupRan(s)) =>
            (InStore(s)' => InStore(s))]_vars

\* Without a further gateway event or request nothing will run for s: no
\* task of it is suspended and none of its timers is armed.
Quiet(s) == alive /\ sessions[s].flow # "none" /\ ~Pending(s)

\* C23: every session that allocated working storage has it deleted by a
\* deadline, with no further input: the session is never left with nothing
\* pending, no timer armed, and its directory still on disk.
C23_StorageDeletedByDeadline ==
    \A s \in Sessions :
        (Quiet(s) /\ "storage" \in sessions[s].hist) => ~DirExists(s)

\* C24: when the SIGTERM or SIGINT handler of pair.js has run to its
\* process.exit, the map is empty and every session that allocated working
\* storage, in the map or not, has no timeout timer armed and no working
\* directory.
C24_SignalLeavesNothing ==
    signal.phase = "done" =>
        /\ DOMAIN activeSessions = {}
        /\ \A s \in Sessions :
              "storage" \in sessions[s].hist =>
                  sessions[s].timer # "armed" /\ ~DirExists(s)

====
